---- MODULE Spec2Model ----
(***************************************************************************)
(* The wells map layer (WellsLayer: log-curve lookup, colour and width     *)
(* mapping, nearest-vertex picking, click selection) and the filter menu   *)
(* of the well-completions dashboard (FilterMenu: anchor toggle).          *)
(*                                                                         *)
(* JavaScript arrays are modelled as sequences; an array index i of the    *)
(* source is the sequence position i + 1 (see At and HasIndex).  Values    *)
(* that can be undefined, null or of several types are tagged records.     *)
(***************************************************************************)
EXTENDS Integers, Sequences, FiniteSets, TLC

VARIABLES props, call, anchorEl, lastEvent, lastClicked

vars == <<props, call, anchorEl, lastEvent, lastClicked>>

(***************************************************************************)
(* Bounds of the model.                                                    *)
(***************************************************************************)
\* largest number of curves of a log object
MaxCurves == 2
\* largest number of trajectory vertices (and of samples per curve)
MaxLen == 2

(***************************************************************************)
(* JavaScript values.                                                      *)
(***************************************************************************)
Undefined == [t |-> "undefined"]
Null == [t |-> "null"]
TypeError == [t |-> "TypeError"]
Num(n) == [t |-> "number", v |-> n]
Bool(b) == [t |-> "boolean", v |-> b]
Arr(a) == [t |-> "array", v |-> a]
Obj(o) == [t |-> "object", v |-> o]

\* x is null or undefined (what ?. short-circuits on)
IsNullish(x) == "t" \in DOMAIN x /\ x.t \in {"undefined", "null"}

\* !x for the values the layer tests: undefined, null and the number 0 are falsy
Falsy(x) == "t" \in DOMAIN x /\ (x.t \in {"undefined", "null"} \/ (x.t = "number" /\ x.v = 0))

\* arr[i] exists, for a JavaScript index i
HasIndex(arr, i) == (i + 1) \in DOMAIN arr

\* arr[i], for a JavaScript index i that exists
At(arr, i) == arr[i + 1]

\* { ...a, ...b }
Spread(a, b) == [k \in (DOMAIN a) \cup (DOMAIN b) |-> IF k \in DOMAIN b THEN b[k] ELSE a[k]]

(***************************************************************************)
(* String.prototype.toLowerCase on names spelt as sequences of letters.    *)
(***************************************************************************)
toLowerCaseChar(c) ==
    CASE c = "M" -> "m"
      [] c = "D" -> "d"
      [] c = "G" -> "g"
      [] c = "R" -> "r"
      [] OTHER -> c

toLowerCase(s) == [i \in DOMAIN s |-> toLowerCaseChar(s[i])]

(***************************************************************************)
(* The inputs: log objects (LogCurveDataType), names, coordinates.         *)
(***************************************************************************)
\* the spellings curves are stored under
CurveNames == {<<"m", "d">>, <<"G", "r">>, <<"g", "R">>}

\* the spellings a log is asked for by (props.logName)
LogNames == {<<"M", "D">>, <<"g", "R">>, <<"p">>}

Descriptions == {"continuous", "discrete"}

Curves == [name : CurveNames, description : Descriptions]

\* trajectory vertices and pointer coordinates, [x, y]
Points == {<<1, 0>>, <<0, 1>>}

Coordinates == {<<0, 0>>, <<2, 0>>}

\* the sample rows of a curve over n vertices
Rows(n) == {[i \in 1..n |-> 2 + i], [i \in 1..n |-> 9 * i]}

\* data of a log object with c curves over n vertices: data[0] is the trajectory
DataOf(c, n) ==
    IF c = 0 THEN {<<>>}
    ELSE {<<trajectory>> \o rows : trajectory \in [1..n -> Points], rows \in [1..(c - 1) -> Rows(n)]}

\* log objects that carry both a curves list and a data array
FullLogObjects ==
    UNION {[curves : [1..c -> Curves], data : DataOf(c, n)] : c \in 0..MaxCurves, n \in 1..MaxLen}

\* log objects that lack the curves list, or the data array
PartLogObjects ==
    {[data |-> d.data] : d \in FullLogObjects} \cup {[curves |-> d.curves] : d \in FullLogObjects}

LogObjects == FullLogObjects \cup PartLogObjects

\* a well feature of the GeoJSON layers
Features == {[type |-> "Feature", id |-> "well-1"]}

(***************************************************************************)
(* wellsLayer.ts: the log-curve functions.                                 *)
(***************************************************************************)
RGBA(r, g, b, a) == [r |-> r, g |-> g, b |-> b, a |-> a]

COLOR_MAP ==
    << RGBA(0, 0, 0, 0),
       RGBA(0, 255, 0, 255),
       RGBA(0, 0, 255, 255),
       RGBA(255, 255, 0, 255),
       RGBA(255, 0, 255, 255),
       RGBA(0, 255, 255, 255),
       RGBA(125, 125, 255, 255),
       RGBA(125, 255, 125, 255),
       RGBA(255, 125, 125, 255) >>

\* findIndex comparing the names as spelt, letter case included
RECURSIVE findIndex_caseSensitive(_, _, _)
findIndex_caseSensitive(curves, log_name, i) ==
    IF ~HasIndex(curves, i) THEN -1
    ELSE IF At(curves, i).name = log_name THEN i
    ELSE findIndex_caseSensitive(curves, log_name, i + 1)

\* Array.prototype.findIndex with the name test of getLogIDByName, from index i on
RECURSIVE findIndex(_, _, _)
findIndex(curves, log_name, i) ==
    IF ~HasIndex(curves, i) THEN -1
    ELSE IF toLowerCase(At(curves, i).name) = toLowerCase(log_name) THEN i
    ELSE findIndex(curves, log_name, i + 1)

getLogIDByName(d, log_name) ==
    IF IsNullish(d) \/ "curves" \notin DOMAIN d THEN Undefined
    ELSE Num(findIndex(d.curves, log_name, 0))

\* Math.min(...row) and Math.max(...row) of a non-empty row
Min(row) == CHOOSE m \in {row[i] : i \in DOMAIN row} : \A i \in DOMAIN row : m <= row[i]
Max(row) == CHOOSE m \in {row[i] : i \in DOMAIN row} : \A i \in DOMAIN row : m >= row[i]

\* color(color_interp(t))?.rgb() at t = num / den: the ramp colour at t, and
\* undefined when t is NaN (den = 0: rgb(NaN, NaN, NaN) is no colour)
color_interp(num, den) ==
    IF den = 0 THEN Undefined ELSE [r |-> "ramp", g |-> "ramp", b |-> "ramp", at |-> <<num, den>>]

\* the forEach of the continuous branch: colours that are undefined are not pushed
RECURSIVE continuousColors(_, _, _, _)
continuousColors(row, min, max_delta, i) ==
    IF ~HasIndex(row, i) THEN <<>>
    ELSE LET rgb == color_interp(At(row, i) - min, max_delta)
         IN  (IF rgb = Undefined THEN <<>> ELSE <<rgb>>) \o continuousColors(row, min, max_delta, i + 1)

\* COLOR_MAP[value % 10]
colorOf(value) == IF HasIndex(COLOR_MAP, value % 10) THEN At(COLOR_MAP, value % 10) ELSE Undefined

\* the forEach of the discrete branch
discreteColors(row) == [i \in DOMAIN row |-> colorOf(row[i])]

\* getLogColor testing only !log_id, without the curves[log_id] == undefined test
getLogColor_noUndefinedCheck(d, log_name) ==
    LET log_id == getLogIDByName(d, log_name)
    IN  IF Falsy(log_id) THEN Arr(<<>>)
        ELSE IF "data" \notin DOMAIN d \/ ~HasIndex(d.data, log_id.v) THEN TypeError
        ELSE LET row == At(d.data, log_id.v)
             IN  IF HasIndex(d.curves, log_id.v) /\ At(d.curves, log_id.v).description = "continuous"
                 THEN IF row = <<>> THEN Arr(<<>>)
                      ELSE Arr(continuousColors(row, Min(row), Max(row) - Min(row), 0))
                 ELSE Arr(discreteColors(row))

getLogColor(d, log_name) ==
    LET log_id == getLogIDByName(d, log_name)
    IN  IF Falsy(log_id) \/ ~HasIndex(d.curves, log_id.v) THEN Arr(<<>>)
        ELSE IF "data" \notin DOMAIN d \/ ~HasIndex(d.data, log_id.v) THEN TypeError
        ELSE LET row == At(d.data, log_id.v)
             IN  IF At(d.curves, log_id.v).description = "continuous"
                 THEN IF row = <<>> THEN Arr(<<>>)
                      ELSE Arr(continuousColors(row, Min(row), Max(row) - Min(row), 0))
                 ELSE Arr(discreteColors(row))

getLogWidth(d, log_name) ==
    LET log_id == getLogIDByName(d, log_name)
    IN  IF Falsy(log_id) THEN Null
        ELSE IF "data" \notin DOMAIN d THEN TypeError
        ELSE IF HasIndex(d.data, log_id.v) THEN Arr(At(d.data, log_id.v))
        ELSE Undefined

defaultProps == [autoHighlight |-> TRUE, selectionEnabled |-> TRUE]

squared_distance(a, b) ==
    LET dx == a[1] - b[1]
        dy == a[2] - b[2]
    IN  dx * dx + dy * dy

\* Number.MAX_VALUE, the start of the minimum search: above every distance of the model
MAX_VALUE == 2147483647

\* the for loop skipping a vertex that is not strictly nearer (d >= min_d)
RECURSIVE nearestVertex_firstWins(_, _, _, _, _)
nearestVertex_firstWins(trajectory, coordinate, i, min_d, vertex_index) ==
    IF ~HasIndex(trajectory, i) THEN vertex_index
    ELSE LET d == squared_distance(At(trajectory, i), coordinate)
         IN  IF d >= min_d
             THEN nearestVertex_firstWins(trajectory, coordinate, i + 1, min_d, vertex_index)
             ELSE nearestVertex_firstWins(trajectory, coordinate, i + 1, d, i)

\* the for loop of getPickingInfo from index i on: the vertex_index it ends with
RECURSIVE nearestVertex(_, _, _, _, _)
nearestVertex(trajectory, coordinate, i, min_d, vertex_index) ==
    IF ~HasIndex(trajectory, i) THEN vertex_index
    ELSE LET d == squared_distance(At(trajectory, i), coordinate)
         IN  IF d > min_d
             THEN nearestVertex(trajectory, coordinate, i + 1, min_d, vertex_index)
             ELSE nearestVertex(trajectory, coordinate, i + 1, d, i)

(***************************************************************************)
(* wellsLayer.ts: the methods of WellsLayer.  `this` is the layer's props. *)
(***************************************************************************)
\* layerTools.patchLayerProps: newProps are merged into the layer's props
patchLayerProps(layer, newProps) == Spread(layer, newProps)

\* onClick without the selectionEnabled test
onClick_noGate(this, info) ==
    [props |-> patchLayerProps(this, Spread(this, [selectedFeature |-> info.object])),
     ret |-> Bool(TRUE)]

\* onClick with the selectionEnabled test negated
onClick_invertedGate(this, info) ==
    IF this.selectionEnabled THEN [props |-> this, ret |-> Bool(FALSE)]
    ELSE [props |-> patchLayerProps(this, Spread(this, [selectedFeature |-> info.object])),
          ret |-> Bool(TRUE)]

\* the layer's props after the call, and the value returned
onClick(this, info) ==
    IF ~this.selectionEnabled THEN [props |-> this, ret |-> Bool(FALSE)]
    ELSE [props |-> patchLayerProps(this, Spread(this, [selectedFeature |-> info.object])),
          ret |-> Bool(TRUE)]

getPickingInfo(this, info) ==
    IF IsNullish(info.object) \/ "data" \notin DOMAIN info.object THEN Obj(info)
    ELSE IF ~HasIndex(info.object.data, 0) THEN TypeError
    ELSE LET trajectory == At(info.object.data, 0)
             vertex_index == nearestVertex(trajectory, info.coordinate, 0, MAX_VALUE, 0)
             log_id == getLogIDByName(info.object, this.logName)
         IN  IF Falsy(log_id) THEN Obj(info)
             ELSE IF ~HasIndex(info.object.data, log_id.v) THEN TypeError
             ELSE LET row == At(info.object.data, log_id.v)
                      value == IF HasIndex(row, vertex_index) THEN Num(At(row, vertex_index))
                               ELSE Undefined
                      log_name == At(info.object.curves, log_id.v).name
                  IN  Obj(Spread(info, [propertyValue |-> value, logName |-> log_name]))

\* the accessors renderLayers hands to the log_curve path layer
getPath(d) ==
    IF "data" \notin DOMAIN d THEN TypeError
    ELSE IF HasIndex(d.data, 0) THEN Arr(At(d.data, 0))
    ELSE Undefined

getColor(this, d) == getLogColor(d, this.logName)

getWidth(this, d) == IF Falsy(this.logRadius) THEN getLogWidth(d, this.logName) ELSE this.logRadius

(***************************************************************************)
(* FilterMenu.tsx: the anchor state and its two handlers.                  *)
(***************************************************************************)
\* the filter button, event.currentTarget of its click
Button == [t |-> "element", id |-> "filter-button"]

\* handleClick closing a menu that is open
handleClick_toggle(anchor, event) == IF anchor = Null THEN event.currentTarget ELSE Null

\* the anchor after handleClick(event)
handleClick(anchor, event) == event.currentTarget

\* the anchor after handleClose()
handleClose(anchor) == Null

\* open={Boolean(anchorEl)}
open == anchorEl # Null

(***************************************************************************)
(* The state machine: the host framework calls into the components.        *)
(***************************************************************************)
\* props.logRadius: unset, or a fixed radius
LogRadii == {Undefined, Num(5)}

\* the log objects of the host specification: a two-vertex well with a depth curve and one log
HostLogObjects ==
    {d \in FullLogObjects : Len(d.curves) = 2 /\ Len(At(d.data, 0)) = 2
                            /\ At(d.curves, 0).name = <<"m", "d">>
                            /\ At(d.curves, 0).description = "continuous"
                            /\ At(d.data, 0) = <<<<1, 0>>, <<0, 1>>>>}

InitProps(d, n) ==
    Spread(defaultProps,
           [selectedFeature |-> Undefined, logData |-> d, logName |-> n, logRadius |-> Undefined])

InitRest ==
    /\ call = [op |-> "none"]
    /\ anchorEl = Null
    /\ lastEvent = "none"
    /\ lastClicked = Undefined

Init ==
    /\ \E d \in HostLogObjects, n \in LogNames : props = InitProps(d, n)
    /\ InitRest

InitFn ==
    /\ \E d \in LogObjects, n \in LogNames : props = InitProps(d, n)
    /\ InitRest

\* what a pick can hit: nothing, a well feature, or the log object
PickInfos ==
    [object : {Null, props.logData} \cup Features, coordinate : Coordinates]

\* the host application passes new props to the layer
SetProps ==
    /\ \E e \in BOOLEAN, n \in LogNames, r \in LogRadii :
          props' = [props EXCEPT !.selectionEnabled = e, !.logName = n, !.logRadius = r]
    /\ call' = [op |-> "setProps"]
    /\ UNCHANGED <<anchorEl, lastEvent, lastClicked>>

OnClick ==
    /\ \E info \in PickInfos :
          /\ info.object # Null
          /\ props' = onClick(props, info).props
          /\ call' = [op |-> "onClick", this |-> props, info |-> info,
                      ret |-> onClick(props, info).ret]
          /\ lastClicked' = IF props.selectionEnabled THEN info.object ELSE lastClicked
    /\ UNCHANGED <<anchorEl, lastEvent>>

GetPickingInfo ==
    /\ \E info \in PickInfos :
          call' = [op |-> "getPickingInfo", this |-> props, info |-> info,
                   ret |-> getPickingInfo(props, info)]
    /\ UNCHANGED <<props, anchorEl, lastEvent, lastClicked>>

GetLogIDByName ==
    /\ call' = [op |-> "getLogIDByName", this |-> props, d |-> props.logData,
                ret |-> getLogIDByName(props.logData, props.logName)]
    /\ UNCHANGED <<props, anchorEl, lastEvent, lastClicked>>

GetLogWidth ==
    /\ call' = [op |-> "getLogWidth", this |-> props, d |-> props.logData,
                ret |-> getLogWidth(props.logData, props.logName)]
    /\ UNCHANGED <<props, anchorEl, lastEvent, lastClicked>>

GetPath ==
    /\ call' = [op |-> "getPath", this |-> props, d |-> props.logData,
                ret |-> getPath(props.logData)]
    /\ UNCHANGED <<props, anchorEl, lastEvent, lastClicked>>

GetColor ==
    /\ call' = [op |-> "getColor", this |-> props, d |-> props.logData,
                ret |-> getColor(props, props.logData)]
    /\ UNCHANGED <<props, anchorEl, lastEvent, lastClicked>>

GetWidth ==
    /\ call' = [op |-> "getWidth", this |-> props, d |-> props.logData,
                ret |-> getWidth(props, props.logData)]
    /\ UNCHANGED <<props, anchorEl, lastEvent, lastClicked>>

HandleClick ==
    /\ anchorEl' = handleClick(anchorEl, [currentTarget |-> Button])
    /\ lastEvent' = "click"
    /\ UNCHANGED <<props, call, lastClicked>>

HandleClose ==
    /\ anchorEl' = handleClose(anchorEl)
    /\ lastEvent' = "close"
    /\ UNCHANGED <<props, call, lastClicked>>

Next ==
    \/ SetProps
    \/ OnClick
    \/ GetPickingInfo
    \/ GetPath
    \/ GetColor
    \/ GetWidth
    \/ HandleClick
    \/ HandleClose

Spec == Init /\ [][Next]_vars

NextFn ==
    \/ GetLogIDByName
    \/ GetLogWidth
    \/ GetColor
    \/ GetPickingInfo

SpecFn == InitFn /\ [][NextFn]_vars

(***************************************************************************)
(* Vocabulary of the properties.                                           *)
(***************************************************************************)
\* two letters that are equal up to letter case
SameLetter(a, b) == a = b \/ {a, b} \in {{"m", "M"}, {"d", "D"}, {"g", "G"}, {"r", "R"}}

EqualIgnoringCase(s, u) == Len(s) = Len(u) /\ \A i \in 1..Len(s) : SameLetter(s[i], u[i])

\* the indices of the curves of d whose name is log_name ignoring case
Matching(d, log_name) ==
    {i \in 0..(Len(d.curves) - 1) : EqualIgnoringCase(At(d.curves, i).name, log_name)}

Lowest(S) == CHOOSE i \in S : \A j \in S : i <= j
Highest(S) == CHOOSE i \in S : \A j \in S : i >= j

HasCurves(d) == "curves" \in DOMAIN d
HasData(d) == "data" \in DOMAIN d

\* the vertices of a trajectory at the minimal squared distance from a coordinate
Nearest(trajectory, coordinate) ==
    {v \in 0..(Len(trajectory) - 1) :
        \A j \in 0..(Len(trajectory) - 1) :
            squared_distance(At(trajectory, v), coordinate)
                <= squared_distance(At(trajectory, j), coordinate)}

\* the last call was getPickingInfo on a log object with curves, data and a trajectory
PickedLog ==
    /\ call.op = "getPickingInfo"
    /\ HasCurves(call.info.object)
    /\ HasData(call.info.object)
    /\ HasIndex(call.info.object.data, 0)

\* ... and it returned a pick info with a propertyValue
PickedValue ==
    /\ PickedLog
    /\ call.ret.t = "object"
    /\ "propertyValue" \in DOMAIN call.ret.v

(***************************************************************************)
(* C1: getPickingInfo on a picked log object (with a data array and a      *)
(* curves list) and a logName that matches none of its curve names         *)
(* ignoring case completes normally and returns the incoming pick info,    *)
(* with no propertyValue and no logName added.                             *)
(***************************************************************************)
C1_MissingNameReturnsInfo ==
    ( /\ call.op = "getPickingInfo"
      /\ HasCurves(call.info.object)
      /\ HasData(call.info.object)
      /\ Matching(call.info.object, call.this.logName) = {} )
    => call.ret = Obj(call.info)

(***************************************************************************)
(* C2: getLogColor returns an empty colour array, without raising, for a   *)
(* logName that matches none of the object's curve names ignoring case,    *)
(* also when the object has no curves list.                                *)
(***************************************************************************)
C2_MissingNameEmptyColors ==
    ( /\ call.op = "getColor"
      /\ (HasCurves(call.d) => Matching(call.d, call.this.logName) = {}) )
    => call.ret = Arr(<<>>)

C2_Witness ==
    /\ call.op = "getColor"
    /\ HasCurves(call.d)
    /\ HasData(call.d)
    /\ Len(call.d.curves) >= 2
    /\ Matching(call.d, call.this.logName) = {}
    /\ call.ret = Arr(<<>>)

(***************************************************************************)
(* C3: for a logName that matches, ignoring case, the curve at index i,    *)
(* getLogWidth returns that curve's data row data[i], for every index i    *)
(* of the curves list, i = 0 included.                                     *)
(***************************************************************************)
C3_NamedCurveWidth ==
    ( /\ call.op = "getLogWidth"
      /\ HasCurves(call.d)
      /\ HasData(call.d)
      /\ Matching(call.d, call.this.logName) # {} )
    => call.ret = Arr(At(call.d.data, Lowest(Matching(call.d, call.this.logName))))

(***************************************************************************)
(* C4, as claimed: when several trajectory vertices are at the same        *)
(* minimal squared distance from the coordinate, getPickingInfo uses the   *)
(* one with the lowest index: propertyValue is the log value there.        *)
(***************************************************************************)
C4_FirstNearestVertexWins ==
    PickedValue =>
        LET d == call.info.object
            k == Lowest(Matching(d, call.this.logName))
            v == Lowest(Nearest(At(d.data, 0), call.info.coordinate))
        IN  call.ret.v.propertyValue = Num(At(At(d.data, k), v))

(***************************************************************************)
(* C4, amended: among several vertices at the same minimal squared         *)
(* distance getPickingInfo uses the one with the highest index:            *)
(* propertyValue, when it is added, is the log value at the last of them.  *)
(***************************************************************************)
C4_LastNearestVertexWins ==
    PickedValue =>
        LET d == call.info.object
            k == Lowest(Matching(d, call.this.logName))
            v == Highest(Nearest(At(d.data, 0), call.info.coordinate))
        IN  call.ret.v.propertyValue = Num(At(At(d.data, k), v))

C4_Witness ==
    /\ PickedValue
    /\ Cardinality(Nearest(At(call.info.object.data, 0), call.info.coordinate)) >= 2
    /\ call.ret.v.propertyValue
          = Num(At(At(call.info.object.data, 1),
                   Highest(Nearest(At(call.info.object.data, 0), call.info.coordinate))))

(***************************************************************************)
(* C5, as claimed: no call of onClick, of getPickingInfo or of the         *)
(* getColor / getWidth / getPath accessors changes the layer's props       *)
(* (selectedFeature and the log data included).                            *)
(***************************************************************************)
C5_CallbacksChangeNothing ==
    call.op \in {"onClick", "getPickingInfo", "getColor", "getWidth", "getPath"}
        => props = call.this

(***************************************************************************)
(* C5, amended: getPickingInfo and the getColor / getWidth / getPath       *)
(* accessors change no prop; onClick changes no prop other than            *)
(* selectedFeature, and no prop at all while selectionEnabled is false.    *)
(***************************************************************************)
C5_OnlyOnClickSelects ==
    /\ call.op \in {"getPickingInfo", "getColor", "getWidth", "getPath"} => props = call.this
    /\ call.op = "onClick" =>
          /\ DOMAIN props = DOMAIN call.this
          /\ \A k \in DOMAIN props \ {"selectedFeature"} : props[k] = call.this[k]
          /\ ~call.this.selectionEnabled => props = call.this

C5_Witness ==
    /\ call.op = "onClick"
    /\ call.this.selectionEnabled
    /\ call.this.selectedFeature # call.info.object
    /\ props.selectedFeature = call.info.object
    /\ props.logData = call.this.logData

(***************************************************************************)
(* C6: for a picked log object with a non-empty trajectory data[0] and a   *)
(* logName matching the curve at index k, getPickingInfo uses a vertex v   *)
(* at the minimal squared distance from the coordinate and returns the     *)
(* incoming pick info extended with propertyValue = data[k][v] and         *)
(* logName = curves[k].name, the stored spelling.                          *)
(***************************************************************************)
C6_NearestVertexPicked ==
    ( /\ PickedLog
      /\ Len(At(call.info.object.data, 0)) > 0
      /\ Matching(call.info.object, call.this.logName) # {} )
    => LET d == call.info.object
           k == Lowest(Matching(d, call.this.logName))
       IN  /\ call.ret.t = "object"
           /\ DOMAIN call.ret.v = DOMAIN call.info \cup {"propertyValue", "logName"}
           /\ \A f \in DOMAIN call.info : call.ret.v[f] = call.info[f]
           /\ call.ret.v.logName = At(d.curves, k).name
           /\ \E v \in Nearest(At(d.data, 0), call.info.coordinate) :
                 call.ret.v.propertyValue = Num(At(At(d.data, k), v))

(***************************************************************************)
(* C7: getLogIDByName returns the lowest index whose curve name equals     *)
(* log_name ignoring letter case, also when several curves carry the       *)
(* name, and -1 when the curves list exists and no curve matches.          *)
(***************************************************************************)
C7_FirstMatchingCurveWins ==
    (call.op = "getLogIDByName" /\ HasCurves(call.d))
    => call.ret = Num(IF Matching(call.d, call.this.logName) = {} THEN -1
                      ELSE Lowest(Matching(call.d, call.this.logName)))

C7_Witness ==
    /\ call.op = "getLogIDByName"
    /\ HasCurves(call.d)
    /\ Cardinality(Matching(call.d, call.this.logName)) >= 2
    /\ call.ret = Num(Lowest(Matching(call.d, call.this.logName)))
    /\ At(call.d.curves, call.ret.v).name # call.this.logName

(***************************************************************************)
(* C8: an onClick while selectionEnabled is false returns false and        *)
(* leaves every prop unchanged; an onClick while it is true returns true   *)
(* and sets selectedFeature to the clicked object, leaving every other     *)
(* prop unchanged; selectedFeature always is the object of the most        *)
(* recent click made while selection was enabled (its initial value if     *)
(* there was none).                                                        *)
(***************************************************************************)
C8_SelectionGated ==
    /\ props.selectedFeature = lastClicked
    /\ call.op = "onClick" =>
          IF call.this.selectionEnabled
          THEN /\ call.ret = Bool(TRUE)
               /\ props = [call.this EXCEPT !.selectedFeature = call.info.object]
          ELSE /\ call.ret = Bool(FALSE)
               /\ props = call.this

C8_Witness ==
    /\ call.op = "onClick"
    /\ ~call.this.selectionEnabled
    /\ call.ret = Bool(FALSE)
    /\ props.selectedFeature \in Features
    /\ call.info.object # props.selectedFeature

(***************************************************************************)
(* C9: for a matched curve at index i >= 1 whose description is not        *)
(* "continuous", getLogColor returns one colour per sample of data[i], in  *)
(* sample order, and every returned colour is a defined entry of           *)
(* COLOR_MAP, the entry at index value % 10.                               *)
(***************************************************************************)
C9_DiscreteColorsDefined ==
    ( /\ call.op = "getColor"
      /\ HasCurves(call.d)
      /\ HasData(call.d)
      /\ Matching(call.d, call.this.logName) # {}
      /\ Lowest(Matching(call.d, call.this.logName)) >= 1
      /\ At(call.d.curves, Lowest(Matching(call.d, call.this.logName))).description
            # "continuous" )
    => LET row == At(call.d.data, Lowest(Matching(call.d, call.this.logName)))
       IN  /\ call.ret.t = "array"
           /\ Len(call.ret.v) = Len(row)
           /\ \A j \in DOMAIN row :
                 \E c \in 0..(Len(COLOR_MAP) - 1) :
                     c = row[j] % 10 /\ call.ret.v[j] = At(COLOR_MAP, c)

(***************************************************************************)
(* C10: the filter menu starts closed (anchor null); after any sequence    *)
(* of button clicks and menu closes the menu is open iff the anchor is     *)
(* non-null iff the most recent event was a button click; a click sets     *)
(* the anchor to the clicked button and a close resets it to null.         *)
(***************************************************************************)
C10_MenuToggle ==
    /\ lastEvent = "none" => anchorEl = Null
    /\ open <=> anchorEl # Null
    /\ anchorEl # Null <=> lastEvent = "click"
    /\ lastEvent = "click" => anchorEl = Button
    /\ lastEvent = "close" => anchorEl = Null

C10_Witness ==
    /\ lastEvent = "click"
    /\ anchorEl = Button
    /\ open

====
